---- MODULE Spec2Model ----
(***************************************************************************)
(* A model of the local logic of the notebook                              *)
(* examples/braket_features/Allocating_Qubits_on_QPU_Devices.ipynb:        *)
(*   - find_qubit_pair(gate): argument checks, the linear scan of the      *)
(*     two-qubit calibration table, and the parsing of the best pair's     *)
(*     label "<a>-<b>" into two integers;                                  *)
(*   - the "user-defined qubit allocation" cell, which draws a random      *)
(*     qubit of the connectivity graph and its first neighbour.            *)
(* Python strings that the code indexes are sequences of one-character     *)
(* strings; fidelities are integers counting steps of 1/MaxFid, so that    *)
(* 0 is fidelity 0.0 and MaxFid is fidelity 1.0 (the code only compares    *)
(* them).  The remote service behind device.run / task.state / task.result *)
(* is not part of the notebook and is not modelled.                        *)
(***************************************************************************)
EXTENDS Integers, Sequences, FiniteSets, TLC

VARIABLES
    gate,               \* the argument of find_qubit_pair
    calibration_2Q,     \* device.properties.provider.specs['2Q'], in iteration order
    pc,                 \* position in the code being run
    idx,                \* position of the for loop in calibration_2Q.keys()
    highest_fidelity,   \* local of find_qubit_pair
    best_pair,          \* local of find_qubit_pair (Unbound until first assigned)
    result,             \* what the call produced: a return value or an exception
    connectivity_graph, \* device.properties.paradigm.connectivity.connectivityGraph
    q1, q2,             \* notebook globals set by the allocation cell
    circuit             \* the circuit the allocation cell builds

vars == <<gate, calibration_2Q, pc, idx, highest_fidelity, best_pair, result,
          connectivity_graph, q1, q2, circuit>>

(***************************************************************************)
(* Bounds of the model.                                                    *)
(***************************************************************************)
MaxFid == 2         \* fidelities are 0/MaxFid .. MaxFid/MaxFid
MaxPairs == 2       \* pairs in a calibration table
MaxQubit == 36      \* qubit numbers in the labels given to the parsing step
MaxPad == 1         \* leading zeros in front of a number of such a label
MaxNeighbors == 2   \* length of a neighbour list of the connectivity graph

(***************************************************************************)
(* Python values.                                                          *)
(***************************************************************************)
Digits == <<"0", "1", "2", "3", "4", "5", "6", "7", "8", "9">>

IsDigit(c) == \E d \in 1..10 : Digits[d] = c

DigitVal(c) == (CHOOSE d \in 1..10 : Digits[d] = c) - 1

\* str(n) for an integer n >= 0: how the device writes a qubit number.
RECURSIVE Str(_)
Str(n) == IF n < 10 THEN <<Digits[n + 1]>>
          ELSE Str(n \div 10) \o <<Digits[(n % 10) + 1]>>

\* The key of a pair in specs['2Q'], such as "21-36".
PairLabel(a, b) == Str(a) \o <<"-">> \o Str(b)

AllDigits(s) == \A k \in 1..Len(s) : IsDigit(s[k])

RECURSIVE DigitsVal(_)
DigitsVal(s) == IF Len(s) = 0 THEN 0
                ELSE 10 * DigitsVal(SubSeq(s, 1, Len(s) - 1)) + DigitVal(s[Len(s)])

\* int(s) accepts an optional sign followed by one or more decimal digits.
IntOk(s) ==
    \/ Len(s) >= 1 /\ AllDigits(s)
    \/ Len(s) >= 2 /\ s[1] = "-" /\ AllDigits(SubSeq(s, 2, Len(s)))

IntVal(s) == IF s[1] = "-" THEN 0 - DigitsVal(SubSeq(s, 2, Len(s)))
             ELSE DigitsVal(s)

\* The value of a local name that was never assigned.
Unbound == <<"unbound">>

NoResult == [status |-> "none"]

(***************************************************************************)
(* find_qubit_pair: the argument checks.                                   *)
(***************************************************************************)
\* A Python value given as the argument: its type and its text.
StrArg(s) == [type |-> "str", val |-> s]

NonStrArg(t, s) == [type |-> t, val |-> s]

isinstance_str(g) == g.type = "str"

gate_list == <<"CPHASE", "CZ", "XY">>

\* A faulty membership test: one that ignores the case of the label.
InGateListIgnoreCase(g) ==
    \/ \E k \in 1..Len(gate_list) : StrArg(gate_list[k]) = g
    \/ g \in {StrArg("cphase"), StrArg("cz"), StrArg("xy")}

\* gate in gate_list
InGateList(g) == \E k \in 1..Len(gate_list) : StrArg(gate_list[k]) = g

MsgNotString == "The input gate must be a string type."
MsgNotNative == "The input gate must be either CPHASE, CZ or XY."

\* The two checks in the wrong order.
CheckGateSwapped(g) ==
    IF ~InGateList(g) THEN MsgNotNative
    ELSE IF ~isinstance_str(g) THEN MsgNotString
    ELSE "ok"

\* The message of the ValueError the two checks raise for g, or "ok".
CheckGate(g) ==
    IF ~isinstance_str(g) THEN MsgNotString
    ELSE IF ~InGateList(g) THEN MsgNotNative
    ELSE "ok"

(***************************************************************************)
(* find_qubit_pair: the scan.                                              *)
(***************************************************************************)
\* A faulty key: the same one for every gate.
FKeyFixed(g) == "fCZ"

\* 'f' + gate
FKey(g) == "f" \o g.val

\* ('f' + gate) in calibration_2Q[pair].keys()
Supports(entry, g) == FKey(g) \in DOMAIN entry.specs

Fid(entry, g) == entry.specs[FKey(g)]

\* A variant that gives best_pair a value before the loop.
best_pair_default == PairLabel(0, 0)

\* best_pair before the loop: the code assigns it only inside the loop.
best_pair_at_entry == Unbound

\* calibration_2Q[pair]['f' + gate] > highest_fidelity
Better(f, hf) == f > hf

(***************************************************************************)
(* find_qubit_pair: the parsing of best_pair.                              *)
(***************************************************************************)
\* The while loop: the first i >= start with s[i] = '-', or 0 when the index
\* runs off the end of s (IndexError).
RECURSIVE HyphenIndex(_, _)
HyphenIndex(s, i) ==
    IF i > Len(s) THEN 0
    ELSE IF s[i] = "-" THEN i
    ELSE HyphenIndex(s, i + 1)

\* A faulty slice: best_pair[i:], which keeps the hyphen.
TailFromHyphen(s, i) == SubSeq(s, i, Len(s))

\* best_pair[i+1:]
TailAfter(s, i) == SubSeq(s, i + 1, Len(s))

\* Lines 347-357 for best_pair = bp; s[1] is Python's s[0], so the scan that
\* Python starts at index 1 starts at 2 here.
ParseAndReturn(bp, hf) ==
    IF bp = Unbound THEN [status |-> "UnboundLocalError"]
    ELSE IF Len(bp) = 0 THEN [status |-> "IndexError"]
    ELSE LET i == HyphenIndex(bp, 2)
             t1 == SubSeq(bp, 1, i - 1)
             t2 == TailAfter(bp, i)
         IN IF i = 0 THEN [status |-> "IndexError"]
            ELSE IF ~IntOk(t1) \/ ~IntOk(t2) THEN [status |-> "ValueError", msg |-> "int"]
            ELSE [status |-> "ok", q1 |-> IntVal(t1), q2 |-> IntVal(t2),
                  highest_fidelity |-> hf]

(***************************************************************************)
(* The inputs of find_qubit_pair.                                          *)
(***************************************************************************)
GateArgs ==
    {StrArg("CPHASE"), StrArg("CZ"), StrArg("XY"),
     StrArg("cz"), StrArg("CNOT"), StrArg(""),
     NonStrArg("int", "0"), NonStrArg("bytes", "CZ"),
     NonStrArg("NoneType", "None"), NonStrArg("list", "['CZ']")}

\* Fidelity keys the entries of the model's tables may define; CPHASE is a
\* native gate that no entry of these tables defines.
FidKeys == {"fCZ", "fXY"}

PairPool == {PairLabel(0, 1), PairLabel(10, 17), PairLabel(21, 36)}

SpecsRecords == UNION {[K -> 0..MaxFid] : K \in SUBSET FidKeys}

Entries == [pair : PairPool, specs : SpecsRecords]

\* A dict has no two equal keys.
DistinctKeys(t) == \A i, j \in 1..Len(t) : i # j => t[i].pair # t[j].pair

Tables == {t \in UNION {[1..n -> Entries] : n \in 0..MaxPairs} : DistinctKeys(t)}

NoGraph == [k \in {} |-> <<>>]

(***************************************************************************)
(* find_qubit_pair as a state machine: one step for the checks and the     *)
(* initialisation, one per iteration of the for loop, one for the parsing  *)
(* and the return.                                                         *)
(***************************************************************************)
Init ==
    /\ gate \in GateArgs
    /\ calibration_2Q \in Tables
    /\ pc = "call"
    /\ idx = 0
    /\ highest_fidelity = 0
    /\ best_pair = Unbound
    /\ result = NoResult
    /\ connectivity_graph = NoGraph
    /\ q1 = 0
    /\ q2 = 0
    /\ circuit = <<>>

AllocVars == <<connectivity_graph, q1, q2, circuit>>

\* Lines 322-333.
Validate ==
    /\ pc = "call"
    /\ IF CheckGate(gate) # "ok"
       THEN /\ result' = [status |-> "ValueError", msg |-> CheckGate(gate)]
            /\ pc' = "done"
            /\ UNCHANGED <<idx, highest_fidelity, best_pair>>
       ELSE /\ pc' = "scan"
            /\ idx' = 1
            /\ highest_fidelity' = 0
            /\ best_pair' = best_pair_at_entry
            /\ UNCHANGED result
    /\ UNCHANGED <<gate, calibration_2Q, AllocVars>>

\* Lines 336-345: one iteration of the for loop.
ScanPair ==
    /\ pc = "scan"
    /\ idx <= Len(calibration_2Q)
    /\ LET entry == calibration_2Q[idx]
       IN IF Supports(entry, gate) /\ Better(Fid(entry, gate), highest_fidelity)
          THEN /\ highest_fidelity' = Fid(entry, gate)
               /\ best_pair' = entry.pair
          ELSE UNCHANGED <<highest_fidelity, best_pair>>
    /\ idx' = idx + 1
    /\ UNCHANGED <<gate, calibration_2Q, pc, result, AllocVars>>

\* Lines 347-357, once the for loop is exhausted.
ParsePair ==
    /\ pc = "scan"
    /\ idx > Len(calibration_2Q)
    /\ result' = ParseAndReturn(best_pair, highest_fidelity)
    /\ pc' = "done"
    /\ UNCHANGED <<gate, calibration_2Q, idx, highest_fidelity, best_pair, AllocVars>>

Next == Validate \/ ScanPair \/ ParsePair

Spec == Init /\ [][Next]_vars

(***************************************************************************)
(* The parsing step on its own: find_qubit_pair at the end of its loop,    *)
(* with best_pair any label "<a>-<b>", a and b written with or without     *)
(* leading zeros.                                                          *)
(***************************************************************************)
Zeros(n) == [k \in 1..n |-> "0"]

PaddedLabel(a, pa, b, pb) == Zeros(pa) \o Str(a) \o <<"-">> \o Zeros(pb) \o Str(b)

ParseLabels ==
    {PaddedLabel(a, pa, b, pb) : a \in 0..MaxQubit, pa \in 0..MaxPad,
                                 b \in 0..MaxQubit, pb \in 0..MaxPad}

InitParse ==
    /\ gate = StrArg("CZ")
    /\ best_pair \in ParseLabels
    /\ highest_fidelity \in 1..MaxFid
    /\ calibration_2Q = <<[pair |-> best_pair, specs |-> ("fCZ" :> highest_fidelity)]>>
    /\ pc = "scan"
    /\ idx = 2
    /\ result = NoResult
    /\ connectivity_graph = NoGraph
    /\ q1 = 0
    /\ q2 = 0
    /\ circuit = <<>>

SpecParse == InitParse /\ [][ParsePair]_vars

(***************************************************************************)
(* The user-defined allocation cell (lines 231-239).                       *)
(***************************************************************************)
QubitPool == {Str(0), Str(1), Str(7), Str(16)}

NeighborLists(k) ==
    {l \in UNION {[1..n -> QubitPool \ {k}] : n \in 0..MaxNeighbors} :
        \A i, j \in 1..Len(l) : i # j => l[i] # l[j]}

\* The graphs whose keys are the qubits K, each with a list of other qubits
\* of the pool.
RECURSIVE GraphsOver(_)
GraphsOver(K) ==
    IF K = {} THEN {NoGraph}
    ELSE LET k == CHOOSE x \in K : TRUE
             rest == GraphsOver(K \ {k})
         IN {(k :> l) @@ g : l \in NeighborLists(k), g \in rest}

\* A faulty choice: the last neighbour, connectivity_graph[q1][-1].
LastNeighbor(l) == l[Len(l)]

\* connectivity_graph[q1][0]
FirstNeighbor(l) == l[1]

InitAlloc ==
    /\ \E K \in SUBSET QubitPool : connectivity_graph \in GraphsOver(K)
    /\ pc = "cell"
    /\ q1 = 0
    /\ q2 = 0
    /\ circuit = <<>>
    /\ result = NoResult
    /\ gate = StrArg("CZ")
    /\ calibration_2Q = <<>>
    /\ idx = 0
    /\ highest_fidelity = 0
    /\ best_pair = Unbound

FindVars == <<gate, calibration_2Q, idx, highest_fidelity, best_pair>>

\* Lines 232-234.  random.choice of an empty list and [0] of an empty list
\* raise IndexError.
ChooseQubits ==
    /\ pc = "cell"
    /\ IF DOMAIN connectivity_graph = {}
       THEN /\ result' = [status |-> "IndexError"]
            /\ pc' = "failed"
            /\ UNCHANGED <<q1, q2>>
       ELSE \E k \in DOMAIN connectivity_graph :
              IF Len(connectivity_graph[k]) = 0
              THEN /\ result' = [status |-> "IndexError"]
                   /\ pc' = "failed"
                   /\ UNCHANGED <<q1, q2>>
              ELSE /\ q2' = IntVal(FirstNeighbor(connectivity_graph[k]))
                   /\ q1' = IntVal(k)
                   /\ pc' = "chosen"
                   /\ UNCHANGED result
    /\ UNCHANGED <<connectivity_graph, circuit, FindVars>>

Op(name, targets) == [gate |-> name, targets |-> targets]

\* Lines 236-239: the circuit handed to device.run with
\* disable_qubit_rewiring=True.
BuildCircuit ==
    /\ pc = "chosen"
    /\ circuit' = <<Op("rz", <<0>>), Op("cnot", <<q1, q2>>), Op("x", <<3>>)>>
    /\ pc' = "submitted"
    /\ UNCHANGED <<connectivity_graph, q1, q2, result, FindVars>>

NextAlloc == ChooseQubits \/ BuildCircuit

SpecAlloc == InitAlloc /\ [][NextAlloc]_vars

(***************************************************************************)
(* Properties.                                                             *)
(***************************************************************************)
NativeGates == {"CPHASE", "CZ", "XY"}

ValidGate(g) == g.type = "str" /\ g.val \in NativeGates

\* The calibration key of a native gate, written out.
FidelityKey(g) ==
    CASE g.val = "CPHASE" -> "fCPHASE"
      [] g.val = "CZ" -> "fCZ"
      [] g.val = "XY" -> "fXY"

\* The positions of the table whose entry defines a fidelity for the gate.
Defining(t, g) == {i \in 1..Len(t) : FidelityKey(g) \in DOMAIN t[i].specs}

FidelityAt(t, g, i) == t[i].specs[FidelityKey(g)]

\* The positions holding the greatest fidelity defined for the gate.
Maximal(t, g) ==
    {i \in Defining(t, g) :
        \A j \in Defining(t, g) : FidelityAt(t, g, j) <= FidelityAt(t, g, i)}

Returned == pc = "done" /\ result.status = "ok"

\* C1: for a native gate and a table in which some pair defines a fidelity
\* for it (any value from 0 to 1), find_qubit_pair returns the greatest such
\* fidelity and the two qubits of a pair that has it.
C1_ReturnsMaximum ==
    (pc = "done" /\ ValidGate(gate) /\ Defining(calibration_2Q, gate) # {})
        => /\ result.status = "ok"
           /\ \E i \in Maximal(calibration_2Q, gate) :
                /\ result.highest_fidelity = FidelityAt(calibration_2Q, gate, i)
                /\ calibration_2Q[i].pair = PairLabel(result.q1, result.q2)

\* C2: a string gate label other than CPHASE, CZ and XY ends the call with
\* the ValueError of the membership check, whatever the table holds; the scan
\* is never entered and nothing is returned.
C2_UnknownLabelRejected ==
    (gate.type = "str" /\ gate.val \notin NativeGates)
        => /\ pc \in {"call", "done"}
           /\ best_pair = Unbound
           /\ pc = "done" => result = [status |-> "ValueError", msg |-> MsgNotNative]

C2_Witness ==
    /\ pc = "done"
    /\ gate = StrArg("cz")
    /\ Len(calibration_2Q) = 2
    /\ Defining(calibration_2Q, StrArg("CZ")) # {}
    /\ result.status = "ValueError"

\* C3: a gate argument that is not a string ends the call with the ValueError
\* of the string-type check, never with that of the membership check.
C3_NonStringRejectedFirst ==
    (pc = "done" /\ gate.type # "str")
        => result = [status |-> "ValueError", msg |-> MsgNotString]

C3_Witness ==
    /\ pc = "done"
    /\ gate = NonStrArg("bytes", "CZ")
    /\ result.status = "ValueError"
    /\ result.msg = MsgNotString

\* The least position of s holding a hyphen.
FirstHyphen(s) ==
    CHOOSE i \in 1..Len(s) : s[i] = "-" /\ \A j \in 1..(i - 1) : s[j] # "-"

\* C4: for a label "<a>-<b>", a and b non-negative decimal numbers of one or
\* more digits, the parsing step yields q1 = a and q2 = b as integers; the
\* scan stops at the first hyphen and all that follows it is the second qubit.
C4_LabelParsed ==
    pc = "done" =>
        /\ result.status = "ok"
        /\ result.highest_fidelity = highest_fidelity
        /\ HyphenIndex(best_pair, 2) = FirstHyphen(best_pair)
        /\ \A n \in 0..MaxQubit : \A p \in 0..MaxPad :
             LET h == FirstHyphen(best_pair)
                 text == Zeros(p) \o Str(n)
             IN /\ SubSeq(best_pair, 1, h - 1) = text => result.q1 = n
                /\ SubSeq(best_pair, h + 1, Len(best_pair)) = text => result.q2 = n

C4_Witness ==
    /\ pc = "done"
    /\ best_pair = <<"2", "1", "-", "3", "6">>
    /\ result.status = "ok"
    /\ result.q1 = 21
    /\ result.q2 = 36

\* C5: for a native gate and a table in which no pair defines a fidelity for
\* it (the empty table included), the call fails and returns nothing.
C5_NoDefiningPairFails ==
    (pc = "done" /\ ValidGate(gate) /\ Defining(calibration_2Q, gate) = {})
        => result = [status |-> "UnboundLocalError"]

C5_Witness ==
    /\ pc = "done"
    /\ gate = StrArg("CZ")
    /\ Len(calibration_2Q) = 2
    /\ Defining(calibration_2Q, gate) = {}
    /\ result.status = "UnboundLocalError"

\* C8: in the allocation cell, whatever random.choice draws, q1 is a key of
\* the connectivity graph and q2 the first entry of its neighbour list, and
\* the cnot of the circuit acts on (q1, q2).
C8_NeighbouringPair ==
    /\ pc \in {"chosen", "submitted"} =>
         \E k \in DOMAIN connectivity_graph :
            /\ k = Str(q1)
            /\ Len(connectivity_graph[k]) >= 1
            /\ connectivity_graph[k][1] = Str(q2)
    /\ pc = "submitted" => circuit[2] = [gate |-> "cnot", targets |-> <<q1, q2>>]
    /\ pc = "failed" =>
         \/ DOMAIN connectivity_graph = {}
         \/ \E k \in DOMAIN connectivity_graph : Len(connectivity_graph[k]) = 0

C8_Witness ==
    /\ pc = "submitted"
    /\ DOMAIN connectivity_graph = QubitPool
    /\ \A k \in QubitPool : Len(connectivity_graph[k]) = 2
    /\ connectivity_graph[Str(16)] = <<Str(1), Str(7)>>
    /\ q1 = 16
    /\ q2 = 1

\* C9: a returned (q1, q2, fidelity) names a key "q1-q2" of the table whose
\* entry defines the requested gate with exactly the returned fidelity; and
\* during the scan highest_fidelity and best_pair, once set, are those of one
\* already scanned entry that defines the requested gate.
C9_ResultIsTableEntry ==
    /\ Returned =>
         \E i \in 1..Len(calibration_2Q) :
            /\ calibration_2Q[i].pair = PairLabel(result.q1, result.q2)
            /\ i \in Defining(calibration_2Q, gate)
            /\ FidelityAt(calibration_2Q, gate, i) = result.highest_fidelity
    /\ pc = "scan" =>
         \/ best_pair = Unbound /\ highest_fidelity = 0
         \/ \E i \in 1..(idx - 1) :
              /\ calibration_2Q[i].pair = best_pair
              /\ i \in Defining(calibration_2Q, gate)
              /\ FidelityAt(calibration_2Q, gate, i) = highest_fidelity

C9_Witness ==
    /\ Returned
    /\ gate = StrArg("XY")
    /\ Len(calibration_2Q) = 2
    /\ Defining(calibration_2Q, gate) = {2}
    /\ "fCZ" \in DOMAIN calibration_2Q[1].specs
    /\ calibration_2Q[1].specs["fCZ"] > result.highest_fidelity
    /\ calibration_2Q[2].pair = PairLabel(result.q1, result.q2)

\* C10: when several pairs share the greatest fidelity for the requested
\* gate, find_qubit_pair returns the one that comes first in the table.
C10_FirstOfTiesReturned ==
    (pc = "done" /\ ValidGate(gate)
        /\ Cardinality(Maximal(calibration_2Q, gate)) >= 2)
        => /\ result.status = "ok"
           /\ \E i \in Maximal(calibration_2Q, gate) :
                /\ \A j \in Maximal(calibration_2Q, gate) : i <= j
                /\ calibration_2Q[i].pair = PairLabel(result.q1, result.q2)

\* Where the greatest fidelity defined for the gate is positive, the maximum
\* and the first pair that has it are what the call returns.
PositiveMaximumReturned ==
    (pc = "done" /\ ValidGate(gate)
        /\ \E i \in Defining(calibration_2Q, gate) : FidelityAt(calibration_2Q, gate, i) > 0)
        => /\ result.status = "ok"
           /\ \E i \in Maximal(calibration_2Q, gate) :
                /\ \A j \in Maximal(calibration_2Q, gate) : i <= j
                /\ result.highest_fidelity = FidelityAt(calibration_2Q, gate, i)
                /\ calibration_2Q[i].pair = PairLabel(result.q1, result.q2)

====
